---- MODULE Spec2Model ----
(***************************************************************************)
(* A model of onnxgraphqt/graph/onnx_node_graph.py: the visual node graph  *)
(* (ONNXNodeGraph), the import translator ONNXtoNodeGraph, the export      *)
(* translator NodeGraphtoONNX, to_onnx / export, auto_layout_nodes and     *)
(* remove_all_nodes.                                                       *)
(***************************************************************************)
EXTENDS Integers, Sequences, FiniteSets, TLC

(***************************************************************************)
(* Bounds of the model.                                                    *)
(***************************************************************************)
\* operator records in one source graph handed to load_onnx_graph
MaxNodes == 2
\* open undo groups (begin_undo is not modelled beyond it)
MaxUndo == 1

(***************************************************************************)
(* Python values.  A value is a scalar, a (possibly nested) list, a numpy  *)
(* array or None.  flat holds the scalar elements in row-major order, shp  *)
(* the nesting lengths of a list or the shape of an array, dtype the numpy *)
(* dtype of an array ("" for plain Python values).                         *)
(***************************************************************************)
None == "None"

PyNone == [py |-> "None", dtype |-> "", flat |-> <<>>, shp |-> <<>>]

PyScalar(v) == [py |-> "scalar", dtype |-> "", flat |-> <<v>>, shp |-> <<>>]

PyList(flat, shp) == [py |-> "list", dtype |-> "", flat |-> flat, shp |-> shp]

NdArray(dtype, flat, shp) == [py |-> "ndarray", dtype |-> dtype, flat |-> flat, shp |-> shp]

\* numpy.ndarray.tolist(): a 0-d array gives a Python scalar, any other a
\* list nested as deep as the array has dimensions
ToList(a) == IF a.shp = <<>> THEN PyScalar(a.flat[1]) ELSE PyList(a.flat, a.shp)

RECURSIVE Product(_)
Product(s) == IF s = <<>> THEN 1 ELSE Head(s) * Product(Tail(s))

\* the number of scalar elements a value holds
NumScalars(v) == Len(v.flat)

\* a shape that is None, and a shape that is a list of dimensions
ShapeNone == [none |-> TRUE, dims |-> <<>>]

Shape(dims) == [none |-> FALSE, dims |-> dims]

(***************************************************************************)
(* onnx_graphsurgeon objects.  id is the identity of the Python object.    *)
(***************************************************************************)
Variable(id, name, dtype, shape) ==
    [id |-> id, name |-> name, cls |-> "Variable", dtype |-> dtype,
     shape |-> shape, values |-> PyNone]

Constant(id, name, values) ==
    [id |-> id, name |-> name, cls |-> "Constant", dtype |-> values.dtype,
     shape |-> Shape(values.shp), values |-> values]

\* one entry of an attribute mapping: str holds a string value, py any other
Attr(key, str, py) == [key |-> key, str |-> str, py |-> py]

HasKey(attrs, key) == \E i \in DOMAIN attrs : attrs[i].key = key

GetAttr(attrs, key) == attrs[CHOOSE i \in DOMAIN attrs : attrs[i].key = key]

Node(op, name, inputs, outputs, attrs) ==
    [op |-> op, name |-> name, inputs |-> inputs, outputs |-> outputs, attrs |-> attrs]

Graph(nodes, inputs, outputs) == [nodes |-> nodes, inputs |-> inputs, outputs |-> outputs]

(***************************************************************************)
(* The source graphs handed to load_onnx_graph: acyclic graphs over five   *)
(* tensors, with at most MaxNodes operator records.                        *)
(***************************************************************************)
TX == Variable(1, "x", "float32", Shape(<<1, 3>>))
TY == Variable(2, "y", "float32", Shape(<<1, 3>>))
TT == Variable(3, "t", None, ShapeNone)
TC == Constant(4, "c", NdArray("int64", <<1, 2>>, <<2>>))
TS == Constant(5, "s", NdArray("int64", <<-1>>, <<>>))

\* the value attribute of a Constant record: a 1-D, a 0-d and a 2-D tensor,
\* and a record that carries its value under another key (value_int)
ValueAttrs ==
    { <<Attr("value", "", NdArray("int64", <<1, 2, 3>>, <<3>>))>>,
      <<Attr("value", "", NdArray("int64", <<5>>, <<>>))>>,
      <<Attr("value", "", NdArray("int64", <<1, 2, 3, 4>>, <<2, 2>>))>>,
      <<Attr("value_int", "", PyScalar(7))>> }

GenericRecords ==
    { Node("Relu", "", <<TX>>, <<TY>>, <<>>), Node("Relu", "", <<TX>>, <<TT>>, <<>>),
      Node("Relu", "", <<TT>>, <<TY>>, <<>>), Node("Relu", "", <<TS>>, <<TY>>, <<>>) }

ConstantRecords == { Node("Constant", "", <<>>, <<TT>>, a) : a \in ValueAttrs }

ConstantOfShapeRecords ==
    { Node("ConstantOfShape", "", <<TC>>, <<TT>>,
           <<Attr("value", "", NdArray("int64", <<0>>, <<1>>))>>) }

Records == GenericRecords \cup ConstantRecords \cup ConstantOfShapeRecords

RecordSeqs == UNION { [1..n -> Records] : n \in 0..MaxNodes }

Digit == <<"1", "2", "3", "4", "5", "6", "7", "8", "9">>

\* the names of the records: n1, n2, ... or the same name for all of them
Named(ns, naming) ==
    [k \in DOMAIN ns |->
        [ns[k] EXCEPT !.name = IF naming = "repeated" THEN "n1" ELSE "n" \o Digit[k]]]

\* the declared graph inputs and outputs: none, or x and y
GraphIO == { [inputs |-> <<>>, outputs |-> <<>>], [inputs |-> <<TX>>, outputs |-> <<TY>>] }

SourceGraphs ==
    { Graph(Named(ns, naming), io.inputs, io.outputs) :
        ns \in RecordSeqs, naming \in {"distinct", "repeated"}, io \in GraphIO }

\* tensor.outputs / tensor.inputs of graphsurgeon: the records consuming /
\* producing the tensor, in graph order
RECURSIVE Consumers(_, _)
Consumers(ns, t) ==
    IF ns = <<>> THEN <<>>
    ELSE (IF \E k \in DOMAIN Head(ns).inputs : Head(ns).inputs[k].id = t.id
          THEN <<Head(ns).name>> ELSE <<>>) \o Consumers(Tail(ns), t)

RECURSIVE Producers(_, _)
Producers(ns, t) ==
    IF ns = <<>> THEN <<>>
    ELSE (IF \E k \in DOMAIN Head(ns).outputs : Head(ns).outputs[k].id = t.id
          THEN <<Head(ns).name>> ELSE <<>>) \o Producers(Tail(ns), t)

(***************************************************************************)
(* The visual graph: vertices in creation order (all_nodes()) and the      *)
(* connections, each from output port 0 of vertex src to input port 0 of   *)
(* vertex dst.                                                             *)
(***************************************************************************)
EmptyGraph == [nodes |-> <<>>, conns |-> {}]

AllNames(ns) == { ns[i].name : i \in DOMAIN ns }

\* NodeGraph.get_unique_name, called by create_node
UniqueName(base, ns) ==
    IF base \notin AllNames(ns) THEN base
    ELSE LET nm(k) == base \o " " \o Digit[k]
         IN  nm(CHOOSE k \in DOMAIN Digit :
                   /\ nm(k) \notin AllNames(ns)
                   /\ \A j \in 1..(k - 1) : nm(j) \in AllNames(ns))

\* the vertex classes of onnx_node.py: an Input has one output port, an
\* Output one input port, an Operator one input and one output port
NewVertex(kind, name) ==
    [kind |-> kind, name |-> name, node_name |-> "", op |-> "", attrs |-> <<>>,
     onnx_inputs |-> <<>>, onnx_outputs |-> <<>>, dtype |-> None, shape |-> ShapeNone,
     io_names |-> <<>>,
     nin |-> IF kind = "Input" THEN 0 ELSE 1,
     nout |-> IF kind = "Output" THEN 0 ELSE 1,
     in_locked |-> FALSE, out_locked |-> FALSE,
     port_deletion_allowed |-> FALSE, pos |-> -1]

\* NodeGraph.create_node: the new vertex goes last in all_nodes()
create_node(g, kind, name) ==
    [g EXCEPT !.nodes = Append(g.nodes, NewVertex(kind, UniqueName(name, g.nodes)))]

create_qtinput(g, src, input) ==
    LET g1 == create_node(g, "Input", input.name)
        k  == Len(g1.nodes)
    IN  [g1 EXCEPT !.nodes[k].node_name = input.name,
                   !.nodes[k].shape = input.shape,
                   !.nodes[k].dtype = input.dtype,
                   !.nodes[k].io_names = Consumers(src.nodes, input)]

create_qtoutput(g, src, output) ==
    LET g1 == create_node(g, "Output", output.name)
        k  == Len(g1.nodes)
    IN  [g1 EXCEPT !.nodes[k].node_name = output.name,
                   !.nodes[k].shape = output.shape,
                   !.nodes[k].dtype = output.dtype,
                   !.nodes[k].io_names = Producers(src.nodes, output)]

OnnxNodeIO(name, dtype, shape, values) ==
    [name |-> name, dtype |-> dtype, shape |-> shape, values |-> values]

\* the classification of one tensor of a record into an OnnxNodeIO; a dtype
\* is held by its name, which is what str() gives for a numpy dtype
ClassifyIO(t) ==
    CASE t.cls = "Tensor"   -> OnnxNodeIO(t.name, t.dtype, t.shape, PyNone)
      [] t.cls = "Constant" -> OnnxNodeIO(t.name, t.values.dtype, t.shape, ToList(t.values))
      [] t.cls = "Variable" -> IF t.dtype = None
                               THEN OnnxNodeIO(t.name, None, ShapeNone, PyNone)
                               ELSE OnnxNodeIO(t.name, t.dtype, t.shape, PyNone)
      [] OTHER              -> OnnxNodeIO(t.name, None, ShapeNone, PyNone)

ClassifyAll(ts) == [k \in DOMAIN ts |-> ClassifyIO(ts[k])]

\* the attributes create_qtnode stores for a Constant record
ConstantAttrs(attrs) ==
    LET value == GetAttr(attrs, "value").py
    IN  << Attr("dtype", value.dtype, PyNone), Attr("values", "", ToList(value)) >>

\* create_qtnode: the graph it leaves and whether it raised
create_qtnode(g, onnx_node) ==
    LET g1 == create_node(g, "Op", onnx_node.name)
        k  == Len(g1.nodes)
        ins  == ClassifyAll(onnx_node.inputs)
        outs == ClassifyAll(onnx_node.outputs)
        g2 == [g1 EXCEPT !.nodes[k].node_name = onnx_node.name,
                         !.nodes[k].op = onnx_node.op,
                         !.nodes[k].onnx_inputs = IF Len(ins) > 0 THEN ins ELSE @,
                         !.nodes[k].onnx_outputs = IF Len(outs) > 0 THEN outs ELSE @]
    IN  IF \E j \in DOMAIN onnx_node.outputs : onnx_node.outputs[j].cls = "Tensor"
        THEN [g |-> g1, raised |-> TRUE]
        ELSE IF onnx_node.op = "Constant"
        THEN IF ~HasKey(onnx_node.attrs, "value")
             THEN [g |-> g2, raised |-> TRUE]
             ELSE [g |-> [g2 EXCEPT !.nodes[k].attrs = ConstantAttrs(onnx_node.attrs),
                                    !.nodes[k].nin = 0,
                                    !.nodes[k].port_deletion_allowed = FALSE],
                   raised |-> FALSE]
        ELSE [g |-> [g2 EXCEPT !.nodes[k].attrs = onnx_node.attrs], raised |-> FALSE]

(***************************************************************************)
(* ONNXtoNodeGraph.                                                        *)
(***************************************************************************)
EmptyMap == [n \in {} |-> 0]

\* the loop creating the Input vertices; qt_io_nodes maps a tensor name to
\* the index of the vertex created last for it
RECURSIVE CreateInputs(_, _, _, _)
CreateInputs(g, io, src, ins) ==
    IF ins = <<>> THEN [g |-> g, io |-> io]
    ELSE LET g1 == create_qtinput(g, src, Head(ins))
         IN  CreateInputs(g1, (Head(ins).name :> Len(g1.nodes)) @@ io, src, Tail(ins))

RECURSIVE CreateOutputs(_, _, _, _)
CreateOutputs(g, io, src, outs) ==
    IF outs = <<>> THEN [g |-> g, io |-> io]
    ELSE LET g1 == create_qtoutput(g, src, Head(outs))
         IN  CreateOutputs(g1, (Head(outs).name :> Len(g1.nodes)) @@ io, src, Tail(outs))

\* the loop creating the Operator vertices; it stops at the first record
\* create_qtnode raises on
RECURSIVE CreateNodes(_, _, _)
CreateNodes(g, qt_nodes, recs) ==
    IF recs = <<>> THEN [g |-> g, qt_nodes |-> qt_nodes, raised |-> FALSE]
    ELSE LET r == create_qtnode(g, Head(recs))
         IN  IF r.raised THEN [g |-> r.g, qt_nodes |-> qt_nodes, raised |-> TRUE]
             ELSE CreateNodes(r.g, (Head(recs).name :> Len(r.g.nodes)) @@ qt_nodes,
                              Tail(recs))

\* qt_edge[key][field].append(name), the entry created at the key's first use
AddEdgeName(qt_edge, key, field, name) ==
    IF \E i \in DOMAIN qt_edge : qt_edge[i].key = key
    THEN [i \in DOMAIN qt_edge |->
            IF qt_edge[i].key = key
            THEN IF field = "inputs"
                 THEN [qt_edge[i] EXCEPT !.inputs = Append(@, name)]
                 ELSE [qt_edge[i] EXCEPT !.outputs = Append(@, name)]
            ELSE qt_edge[i]]
    ELSE Append(qt_edge,
                [key |-> key,
                 inputs |-> IF field = "inputs" THEN <<name>> ELSE <<>>,
                 outputs |-> IF field = "outputs" THEN <<name>> ELSE <<>>])

RECURSIVE AddEdgeNames(_, _, _, _)
AddEdgeNames(qt_edge, ts, field, name) ==
    IF ts = <<>> THEN qt_edge
    ELSE AddEdgeNames(AddEdgeName(qt_edge, Head(ts).name, field, name),
                      Tail(ts), field, name)

\* the index tensor name -> consuming and producing record names, in the
\* order the names are met
RECURSIVE BuildEdgeIndex(_, _)
BuildEdgeIndex(qt_edge, recs) ==
    IF recs = <<>> THEN qt_edge
    ELSE LET n  == Head(recs)
             e1 == AddEdgeNames(qt_edge, n.inputs, "inputs", n.name)
             e2 == AddEdgeNames(e1, n.outputs, "outputs", n.name)
         IN  BuildEdgeIndex(e2, Tail(recs))

TensorNames(ts) == { ts[i].name : i \in DOMAIN ts }

\* one connect_to call of the wiring loop: the dictionary and key that
\* give the source vertex, and those that give the target vertex
Link(sdict, skey, ddict, dkey) ==
    [sdict |-> sdict, skey |-> skey, ddict |-> ddict, dkey |-> dkey]

RECURSIVE ProducerLinks(_, _)
ProducerLinks(outs, inp) ==
    IF outs = <<>> THEN <<>>
    ELSE <<Link("qt_nodes", Head(outs), "qt_nodes", inp)>> \o ProducerLinks(Tail(outs), inp)

RECURSIVE PairLinks(_, _)
PairLinks(ins, outs) ==
    IF ins = <<>> THEN <<>>
    ELSE ProducerLinks(outs, Head(ins)) \o PairLinks(Tail(ins), outs)

\* the connect_to calls the wiring loop makes for one entry of qt_edge
EntryLinks(e, input_names, output_names) ==
    (IF e.key \in input_names
     THEN [i \in DOMAIN e.inputs |-> Link("qt_io_nodes", e.key, "qt_nodes", e.inputs[i])]
     ELSE <<>>)
    \o
    (IF e.key \in output_names
     THEN [i \in DOMAIN e.outputs |-> Link("qt_nodes", e.outputs[i], "qt_io_nodes", e.key)]
     ELSE <<>>)
    \o PairLinks(e.inputs, e.outputs)

RECURSIVE AllLinks(_, _, _)
AllLinks(qt_edge, input_names, output_names) ==
    IF qt_edge = <<>> THEN <<>>
    ELSE EntryLinks(Head(qt_edge), input_names, output_names)
         \o AllLinks(Tail(qt_edge), input_names, output_names)

\* Port.connect_to on output port 0 of vertex s and input port 0 of vertex
\* d, both ports taking any number of connections: nothing when they are
\* connected already, an error when either port is locked
connect_to(g, s, d) ==
    IF <<s, d>> \in g.conns THEN [g |-> g, raised |-> FALSE]
    ELSE IF g.nodes[s].out_locked \/ g.nodes[d].in_locked THEN [g |-> g, raised |-> TRUE]
    ELSE [g |-> [g EXCEPT !.conns = @ \cup {<<s, d>>}], raised |-> FALSE]

\* the wiring loop; output(0) and input(0) raise on a vertex without the port
RECURSIVE ConnectNodes(_, _, _, _)
ConnectNodes(g, qt_io_nodes, qt_nodes, links) ==
    IF links = <<>> THEN [g |-> g, raised |-> FALSE]
    ELSE LET l == Head(links)
             s == IF l.sdict = "qt_nodes" THEN qt_nodes[l.skey] ELSE qt_io_nodes[l.skey]
             d == IF l.ddict = "qt_nodes" THEN qt_nodes[l.dkey] ELSE qt_io_nodes[l.dkey]
         IN  IF g.nodes[s].nout = 0 \/ g.nodes[d].nin = 0
             THEN [g |-> g, raised |-> TRUE]
             ELSE LET r == connect_to(g, s, d)
                  IN  IF r.raised THEN r
                      ELSE ConnectNodes(r.g, qt_io_nodes, qt_nodes, Tail(links))

\* the last loop: set_locked(state=True) on every input port and every
\* output port of every vertex of the graph
LockOnlyInputPorts(g) ==
    [g EXCEPT !.nodes = [i \in DOMAIN g.nodes |-> [g.nodes[i] EXCEPT !.in_locked = TRUE]]]

LockPorts(g) ==
    [g EXCEPT !.nodes = [i \in DOMAIN g.nodes |->
                            [g.nodes[i] EXCEPT !.in_locked = TRUE, !.out_locked = TRUE]]]

\* ONNXtoNodeGraph: the visual graph it leaves and whether it raised
ONNXtoNodeGraph(onnx_graph, node_graph) ==
    LET a == CreateInputs(node_graph, EmptyMap, onnx_graph, onnx_graph.inputs)
        b == CreateOutputs(a.g, a.io, onnx_graph, onnx_graph.outputs)
        c == CreateNodes(b.g, EmptyMap, onnx_graph.nodes)
        qt_edge == BuildEdgeIndex(<<>>, onnx_graph.nodes)
        links == AllLinks(qt_edge, TensorNames(onnx_graph.inputs),
                          TensorNames(onnx_graph.outputs))
        d == ConnectNodes(c.g, b.io, c.qt_nodes, links)
    IN  IF c.raised THEN [g |-> c.g, raised |-> TRUE]
        ELSE IF d.raised THEN d
        ELSE [g |-> LockPorts(d.g), raised |-> FALSE]

\* remove_all_nodes: every port unlocked, every connection cleared, every
\* vertex removed
remove_all_nodes(g) == EmptyGraph

(***************************************************************************)
(* NodeGraphtoONNX.                                                        *)
(***************************************************************************)
NUMPY_TYPES_TO_ONNX_DTYPES == {"float32", "float64", "int32", "int64"}

\* get_nodes_by_type: the indices of the vertices of one kind, in graph order
RECURSIVE NodesByType(_, _, _)
NodesByType(ns, kind, k) ==
    IF k > Len(ns) THEN <<>>
    ELSE (IF ns[k].kind = kind THEN <<k>> ELSE <<>>) \o NodesByType(ns, kind, k + 1)

\* the loops over the Input and the Output vertices: a new Variable for
\* each, entered in gs_variables_all under the vertex's name
RECURSIVE IOVariables(_, _, _)
IOVariables(acc, ns, idx) ==
    IF idx = <<>> THEN acc
    ELSE LET n == ns[Head(idx)]
             v == Variable(acc.next, n.name, n.dtype, n.shape)
         IN  IOVariables([acc EXCEPT !.all = (n.name :> v) @@ @,
                                     !.next = @ + 1,
                                     !.made = Append(@, v)],
                         ns, Tail(idx))

\* val == -1
IsMinusOne(val) == val.py = "scalar" /\ val.flat = <<-1>>

\* the tensor one OnnxNodeIO resolves to, through gs_variables_all
ResolveIO(acc, io) ==
    IF io.name \in DOMAIN acc.all
    THEN [acc |-> acc, v |-> acc.all[io.name], raised |-> FALSE]
    ELSE IF io.dtype = None
    THEN LET v == Variable(acc.next, io.name, None, ShapeNone)
         IN  [acc |-> [acc EXCEPT !.all = (io.name :> v) @@ @, !.next = @ + 1],
              v |-> v, raised |-> FALSE]
    ELSE IF IsMinusOne(io.values) \/ io.values.py = "None"
    THEN LET v == Variable(acc.next, io.name, io.dtype, io.shape)
         IN  [acc |-> [acc EXCEPT !.all = (io.name :> v) @@ @, !.next = @ + 1],
              v |-> v, raised |-> FALSE]
    ELSE IF io.shape.none \/ Product(io.shape.dims) # NumScalars(io.values)
    THEN [acc |-> acc, v |-> Variable(0, io.name, None, ShapeNone), raised |-> TRUE]
    ELSE LET v == Constant(acc.next, io.name,
                           NdArray(io.dtype, io.values.flat, io.shape.dims))
         IN  [acc |-> [acc EXCEPT !.all = (io.name :> v) @@ @, !.next = @ + 1],
              v |-> v, raised |-> FALSE]

RECURSIVE ResolveAll(_, _, _)
ResolveAll(acc, ios, done) ==
    IF ios = <<>> THEN [acc |-> acc, vs |-> done, raised |-> FALSE]
    ELSE LET r == ResolveIO(acc, Head(ios))
         IN  IF r.raised THEN [acc |-> r.acc, vs |-> done, raised |-> TRUE]
             ELSE ResolveAll(r.acc, Tail(ios), Append(done, r.v))

\* the shape computed from the stored values of a Constant-kind vertex
ConstantShape(attr_values) ==
    IF attr_values.py = "list" THEN <<attr_values.shp[1]>>
    ELSE IF attr_values.py = "ndarray" THEN attr_values.shp
    ELSE <<1>>

\* the vals handed to make_tensor: a scalar is wrapped in a list
ConstantVals(attr_values) ==
    IF attr_values.py \in {"list", "ndarray"} THEN attr_values
    ELSE PyList(attr_values.flat, <<1>>)

\* onnx.helper.make_tensor takes a flat sequence of scalars as long as
\* the product of dims
MakeTensorRaises(dims, vals) == Len(vals.shp) # 1 \/ Product(dims) # vals.shp[1]

\* the record of a Constant-kind vertex: made by onnx.helper and read
\* back by gs.import_onnx, which creates the objects of the record anew
ConstantRecord(acc, n, outs) ==
    IF ~HasKey(n.attrs, "dtype") THEN [acc |-> acc, raised |-> TRUE]
    ELSE IF GetAttr(n.attrs, "dtype").str \notin NUMPY_TYPES_TO_ONNX_DTYPES
    THEN [acc |-> acc, raised |-> TRUE]
    ELSE IF ~HasKey(n.attrs, "values") THEN [acc |-> acc, raised |-> TRUE]
    ELSE LET dtype == GetAttr(n.attrs, "dtype").str
             attr_values == GetAttr(n.attrs, "values").py
             shape == ConstantShape(attr_values)
             vals == ConstantVals(attr_values)
         IN  IF outs = <<>> THEN [acc |-> acc, raised |-> TRUE]
             ELSE IF MakeTensorRaises(shape, vals) THEN [acc |-> acc, raised |-> TRUE]
             ELSE LET out == Variable(acc.next, outs[1].name, dtype, Shape(shape))
                      node == Node(n.op, n.node_name, <<>>, <<out>>,
                                   <<Attr("value", "", NdArray(dtype, vals.flat, shape))>>)
                  IN  [acc |-> [acc EXCEPT !.next = @ + 1, !.nodes = Append(@, node)],
                       raised |-> FALSE]

\* the loop over the Operator vertices; it stops where a step raises
RECURSIVE OperatorRecords(_, _, _)
OperatorRecords(acc, ns, idx) ==
    IF idx = <<>> THEN [acc |-> acc, raised |-> FALSE]
    ELSE LET n == ns[Head(idx)]
             i == ResolveAll(acc, n.onnx_inputs, <<>>)
             o == ResolveAll(i.acc, n.onnx_outputs, <<>>)
         IN  IF i.raised THEN [acc |-> i.acc, raised |-> TRUE]
             ELSE IF o.raised THEN [acc |-> o.acc, raised |-> TRUE]
             ELSE IF n.op \notin {"Constant", "ConstantOfShape"}
             THEN OperatorRecords(
                      [o.acc EXCEPT !.nodes =
                          Append(@, Node(n.op, n.node_name, i.vs, o.vs, n.attrs))],
                      ns, Tail(idx))
             ELSE LET c == ConstantRecord(o.acc, n, o.vs)
                  IN  IF c.raised THEN c ELSE OperatorRecords(c.acc, ns, Tail(idx))

NoGraph == Graph(<<>>, <<>>, <<>>)

\* NodeGraphtoONNX: the graph it returns and whether it raised
NodeGraphtoONNX(g) ==
    LET a0 == [all |-> EmptyMap, next |-> 1, made |-> <<>>, nodes |-> <<>>]
        a1 == IOVariables(a0, g.nodes, NodesByType(g.nodes, "Input", 1))
        a2 == IOVariables([a1 EXCEPT !.made = <<>>], g.nodes,
                          NodesByType(g.nodes, "Output", 1))
        r  == OperatorRecords(a2, g.nodes, NodesByType(g.nodes, "Op", 1))
    IN  IF r.raised THEN [graph |-> NoGraph, raised |-> TRUE]
        ELSE [graph |-> Graph(r.acc.nodes, a1.made, a2.made), raised |-> FALSE]

(***************************************************************************)
(* NodeGraphToEdges and auto_layout_nodes.                                 *)
(***************************************************************************)
\* NodeGraphToEdges(reverse=True): [thisIndex, predecessorIndex] for every
\* connection, over the indices of the reversed vertex order (from 0)
NodeGraphToEdges(g) ==
    { <<Len(g.nodes) - c[2], Len(g.nodes) - c[1]>> : c \in g.conns }

Max(S) == CHOOSE m \in S : \A x \in S : x <= m

\* the vertices igraph.Graph(edges=edges) holds: 0 .. the largest index
VCount(edges) == 1 + Max({e[1] : e \in edges} \cup {e[2] : e \in edges})

\* the loop over the reversed vertex order: vertex index i takes
\* layout.coords[i]; pos holds the index of the coordinate a vertex took
PlaceNodes(g, ncoords) ==
    [g EXCEPT !.nodes = [k \in DOMAIN g.nodes |->
        IF Len(g.nodes) - k < ncoords
        THEN [g.nodes[k] EXCEPT !.pos = Len(g.nodes) - k]
        ELSE g.nodes[k]]]

\* auto_layout_nodes: the graph and the open undo groups it leaves and
\* whether it raised.  layout.coords holds one coordinate for each vertex of
\* the igraph graph (no connection of the source graphs modelled here
\* spans more than one layer, so the extended graph adds no vertex);
\* layout.coords[i] raises for a vertex index beyond them
auto_layout_nodes(g, open, push_undo) ==
    LET begun == IF push_undo THEN open + 1 ELSE open
        edges == NodeGraphToEdges(g)
        ncoords == VCount(edges)
    IN  IF edges = {} THEN [g |-> g, open |-> begun, raised |-> FALSE]
        ELSE IF Len(g.nodes) > ncoords
        THEN [g |-> PlaceNodes(g, ncoords), open |-> begun, raised |-> TRUE]
        ELSE [g |-> PlaceNodes(g, ncoords),
              open |-> IF push_undo THEN begun - 1 ELSE begun, raised |-> FALSE]

(***************************************************************************)
(* to_onnx and export.                                                     *)
(***************************************************************************)
\* the steps inside the try block of to_onnx, in order
SerializationSteps == <<"export_onnx", "stamp", "check_model">>

\* to_onnx: gs is what to_onnx_gs did (the graph it returned, or that it
\* raised) and failing the step of the try block that raises ("none": no
\* step).  ret is assigned by the first step and returned whatever follows
to_onnx(gs, failing) ==
    IF gs.raised THEN [ret |-> "None", raised |-> TRUE]
    ELSE IF failing = "export_onnx" THEN [ret |-> "None", raised |-> FALSE]
    ELSE [ret |-> "ModelProto", raised |-> FALSE]

\* export: onnx.save raises on a None model and when the file cannot be
\* written; every exception is raised again
export(gs, failing, write_fails) ==
    LET m == to_onnx(gs, failing)
    IN  IF m.raised THEN [wrote |-> FALSE, raised |-> TRUE]
        ELSE IF m.ret = "None" THEN [wrote |-> FALSE, raised |-> TRUE]
        ELSE IF write_fails THEN [wrote |-> FALSE, raised |-> TRUE]
        ELSE [wrote |-> TRUE, raised |-> FALSE]

(***************************************************************************)
(* The state machine: the calls a user of ONNXNodeGraph can make.          *)
(***************************************************************************)
VARIABLES
    node_graph,   \* the visual graph: vertices and connections
    undo_open,    \* the undo groups begun and not ended
    last_op,      \* the call made last
    raised,       \* whether that call raised
    onnx_graph,   \* the source graph of that call, for load_onnx_graph
    before,       \* the visual graph when that call began, for load_onnx_graph
    gs_graph,     \* the graph that call returned, for to_onnx_gs
    ret,          \* the model that call returned, for to_onnx
    failed_step,  \* the serialization step that raised in that call
    wrote_file    \* whether that call wrote the file, for export

vars == <<node_graph, undo_open, last_op, raised, onnx_graph, before, gs_graph,
          ret, failed_step, wrote_file>>

Init ==
    /\ node_graph = EmptyGraph
    /\ undo_open = 0
    /\ last_op = "init"
    /\ raised = FALSE
    /\ onnx_graph = NoGraph
    /\ before = EmptyGraph
    /\ gs_graph = NoGraph
    /\ ret = "None"
    /\ failed_step = "none"
    /\ wrote_file = FALSE

\* load_onnx_graph, called on a visual graph that holds no vertex (a new
\* graph, or one emptied by remove_all_nodes)
LoadOnnxGraph ==
    \E src \in SourceGraphs :
        /\ node_graph.nodes = <<>>
        /\ LET r == ONNXtoNodeGraph(src, node_graph)
           IN  /\ node_graph' = r.g
               /\ raised' = r.raised
        /\ last_op' = "load_onnx_graph"
        /\ onnx_graph' = src
        /\ before' = node_graph
        /\ gs_graph' = NoGraph
        /\ ret' = "None"
        /\ failed_step' = "none"
        /\ wrote_file' = FALSE
        /\ UNCHANGED undo_open

RemoveAllNodes ==
    /\ node_graph.nodes # <<>>
    /\ node_graph' = remove_all_nodes(node_graph)
    /\ last_op' = "remove_all_nodes"
    /\ raised' = FALSE
    /\ onnx_graph' = NoGraph
    /\ before' = EmptyGraph
    /\ gs_graph' = NoGraph
    /\ ret' = "None"
    /\ failed_step' = "none"
    /\ wrote_file' = FALSE
    /\ UNCHANGED undo_open

ToOnnxGs ==
    /\ LET r == NodeGraphtoONNX(node_graph)
       IN  /\ gs_graph' = r.graph
           /\ raised' = r.raised
    /\ last_op' = "to_onnx_gs"
    /\ onnx_graph' = NoGraph
    /\ before' = EmptyGraph
    /\ ret' = "None"
    /\ failed_step' = "none"
    /\ wrote_file' = FALSE
    /\ UNCHANGED <<node_graph, undo_open>>

Failures == {"none"} \cup {SerializationSteps[i] : i \in DOMAIN SerializationSteps}

\* a step of the try block is reached, and can fail, only when
\* NodeGraphtoONNX has returned
ToOnnx ==
    LET gs == NodeGraphtoONNX(node_graph)
    IN  \E failing \in Failures :
            /\ LET r == to_onnx(gs, failing)
               IN  /\ ret' = r.ret
                   /\ raised' = r.raised
            /\ failed_step' = IF gs.raised THEN "none" ELSE failing
            /\ last_op' = "to_onnx"
            /\ onnx_graph' = NoGraph
            /\ before' = EmptyGraph
            /\ gs_graph' = NoGraph
            /\ wrote_file' = FALSE
            /\ UNCHANGED <<node_graph, undo_open>>

Export ==
    LET gs == NodeGraphtoONNX(node_graph)
    IN  \E failing \in Failures, write_fails \in BOOLEAN :
            /\ LET r == export(gs, failing, write_fails)
               IN  /\ wrote_file' = r.wrote
                   /\ raised' = r.raised
            /\ ret' = to_onnx(gs, failing).ret
            /\ failed_step' = IF gs.raised THEN "none" ELSE failing
            /\ last_op' = "export"
            /\ onnx_graph' = NoGraph
            /\ before' = EmptyGraph
            /\ gs_graph' = NoGraph
            /\ UNCHANGED <<node_graph, undo_open>>

AutoLayout ==
    \E push_undo \in BOOLEAN :
        /\ push_undo => undo_open < MaxUndo
        /\ LET r == auto_layout_nodes(node_graph, undo_open, push_undo)
           IN  /\ node_graph' = r.g
               /\ undo_open' = r.open
               /\ raised' = r.raised
        /\ last_op' = "auto_layout"
        /\ onnx_graph' = NoGraph
        /\ before' = EmptyGraph
        /\ gs_graph' = NoGraph
        /\ ret' = "None"
        /\ failed_step' = "none"
        /\ wrote_file' = FALSE

Next ==
    \/ LoadOnnxGraph
    \/ RemoveAllNodes
    \/ ToOnnxGs
    \/ ToOnnx
    \/ Export
    \/ AutoLayout

Spec == Init /\ [][Next]_vars

\* load_onnx_graph and remove_all_nodes alone: every import of a source
\* graph into the empty visual graph
LoadNext ==
    \/ LoadOnnxGraph
    \/ RemoveAllNodes

LoadSpec == Init /\ [][LoadNext]_vars

(***************************************************************************)
(* Properties.                                                             *)
(***************************************************************************)
Imported == last_op = "load_onnx_graph" /\ ~raised

ConstantKinds == {"Constant", "ConstantOfShape"}

Vertices == DOMAIN node_graph.nodes

AllPortsLocked(g) ==
    \A k \in DOMAIN g.nodes :
        /\ g.nodes[k].nin > 0 => g.nodes[k].in_locked
        /\ g.nodes[k].nout > 0 => g.nodes[k].out_locked

\* C1: when load_onnx_graph returns normally on an initially empty visual
\* graph, every input port and every output port of every vertex (Input,
\* Output and Operator alike) is locked.
C1_AllPortsLockedAfterImport ==
    (Imported /\ before = EmptyGraph) => AllPortsLocked(node_graph)

\* an import that returned, of a graph with an Input, an Output and an
\* Operator vertex and a connection: all their ports are locked
C1_Witness ==
    /\ Imported
    /\ before = EmptyGraph
    /\ node_graph.conns # {}
    /\ \A kind \in {"Input", "Output", "Op"} :
           \E k \in Vertices : node_graph.nodes[k].kind = kind
    /\ AllPortsLocked(node_graph)

\* every tensor reference of a graph: its inputs, its outputs and the
\* inputs and outputs of its records
TensorRefs(graph) ==
    { graph.inputs[i] : i \in DOMAIN graph.inputs }
    \cup { graph.outputs[i] : i \in DOMAIN graph.outputs }
    \cup UNION { { graph.nodes[k].inputs[i] : i \in DOMAIN graph.nodes[k].inputs }
                 : k \in DOMAIN graph.nodes }
    \cup UNION { { graph.nodes[k].outputs[i] : i \in DOMAIN graph.nodes[k].outputs }
                 : k \in DOMAIN graph.nodes }

\* C2: in the graph one export pass returns, any two tensor references
\* with the same name are the same object, the references of the records
\* of Constant-kind vertices included.
C2_SharedTensorObjects ==
    (last_op = "to_onnx_gs" /\ ~raised) =>
        \A r1 \in TensorRefs(gs_graph), r2 \in TensorRefs(gs_graph) :
            r1.name = r2.name => r1.id = r2.id

\* C3: a Constant or ConstantOfShape vertex has no input port after import,
\* port deletion is disallowed on it again when create_qtnode has returned,
\* and the record export produces for it has no input.
C3_ConstantKindHasNoInputs ==
    /\ Imported =>
           \A k \in Vertices :
               (node_graph.nodes[k].kind = "Op" /\ node_graph.nodes[k].op \in ConstantKinds)
                   => (node_graph.nodes[k].nin = 0
                       /\ ~node_graph.nodes[k].port_deletion_allowed)
    /\ (last_op = "to_onnx_gs" /\ ~raised) =>
           \A k \in DOMAIN gs_graph.nodes :
               gs_graph.nodes[k].op \in ConstantKinds => gs_graph.nodes[k].inputs = <<>>

\* C4: when a step of the serialization inside to_onnx raises, to_onnx
\* does not raise and returns None, never a model.
C4_FailedSerializationReturnsNone ==
    (last_op = "to_onnx" /\ failed_step # "none") => (~raised /\ ret = "None")

\* C5: when serialization or checking fails during export, no file is
\* written and no exception reaches the caller.
C5_FailedExportIsSilent ==
    (last_op = "export" /\ failed_step # "none") => (~wrote_file /\ ~raised)

\* C6: every undo group auto_layout_nodes opens is closed when it returns,
\* on every return path: after any sequence of calls no undo group is open.
C6_UndoGroupsClosed == undo_open = 0

\* C7: an import that fails leaves the visual graph as it was before the
\* import began.
C7_FailedImportLeavesGraph ==
    (last_op = "load_onnx_graph" /\ raised) => node_graph = before

\* the vertex created for record p of the source graph imported last (the
\* Input and Output vertices are created first, into the empty graph)
VertexOf(p) == Len(onnx_graph.inputs) + Len(onnx_graph.outputs) + p

Outputs(p) == TensorNames(onnx_graph.nodes[p].outputs)

\* two different records produce one tensor name, and the vertices of
\* both are connected to one vertex
BothProducersWired ==
    \E p \in DOMAIN onnx_graph.nodes, q \in DOMAIN onnx_graph.nodes :
        /\ p # q
        /\ Outputs(p) \cap Outputs(q) # {}
        /\ \E d \in Vertices :
               /\ <<VertexOf(p), d>> \in node_graph.conns
               /\ <<VertexOf(q), d>> \in node_graph.conns

\* C8: an import never completes having connected both producers of one
\* tensor name to a consumer, or to the graph Output vertex, of that name.
C8_FanInNotWired == Imported => ~BothProducersWired

IONames(ios) == [i \in DOMAIN ios |-> ios[i].name]

\* the same vertices (kind, name, operator type), the same ordered tensor
\* names, the same attributes and the same connections
Isomorphic(g, h) ==
    /\ Len(g.nodes) = Len(h.nodes)
    /\ g.conns = h.conns
    /\ \A k \in DOMAIN g.nodes :
           /\ g.nodes[k].kind = h.nodes[k].kind
           /\ g.nodes[k].name = h.nodes[k].name
           /\ g.nodes[k].op = h.nodes[k].op
           /\ IONames(g.nodes[k].onnx_inputs) = IONames(h.nodes[k].onnx_inputs)
           /\ IONames(g.nodes[k].onnx_outputs) = IONames(h.nodes[k].onnx_outputs)
           /\ g.nodes[k].attrs = h.nodes[k].attrs

\* C9: importing the export of a visual graph into an empty visual graph
\* gives a graph isomorphic to it.
C9_RoundTrip ==
    Imported =>
        LET e == NodeGraphtoONNX(node_graph)
        IN  /\ ~e.raised
            /\ LET r == ONNXtoNodeGraph(e.graph, EmptyGraph)
               IN  ~r.raised /\ Isomorphic(r.g, node_graph)

\* C10: the dims export declares for the value tensor of a Constant-kind
\* vertex hold as many elements as the stored values have scalars.
C10_ConstantDimsAgree ==
    last_op = "to_onnx_gs" =>
        \A k \in Vertices :
            (/\ node_graph.nodes[k].op \in ConstantKinds
             /\ HasKey(node_graph.nodes[k].attrs, "values"))
                => LET attr_values == GetAttr(node_graph.nodes[k].attrs, "values").py
                   IN  Product(ConstantShape(attr_values)) = NumScalars(attr_values)

Inputs(p) == TensorNames(onnx_graph.nodes[p].inputs)

\* the vertices created for the declared graph input i and the declared
\* graph output j of the source graph imported last
InputVertexOf(i) == i

OutputVertexOf(j) == Len(onnx_graph.inputs) + j

\* the connections the records of the source graph call for, each between
\* the vertices created for those very records
DeclaredConns ==
    LET I == DOMAIN onnx_graph.inputs
        O == DOMAIN onnx_graph.outputs
        P == DOMAIN onnx_graph.nodes
    IN  { <<InputVertexOf(e[1]), VertexOf(e[2])>> :
            e \in { x \in I \X P : onnx_graph.inputs[x[1]].name \in Inputs(x[2]) } }
        \cup
        { <<VertexOf(e[1]), OutputVertexOf(e[2])>> :
            e \in { x \in P \X O : onnx_graph.outputs[x[2]].name \in Outputs(x[1]) } }
        \cup
        { <<VertexOf(e[1]), VertexOf(e[2])>> :
            e \in { x \in P \X P : Outputs(x[1]) \cap Inputs(x[2]) # {} } }

\* C11: after a completed import into an empty visual graph, the
\* connections are exactly those between the Input vertex of a tensor name
\* and every operator consuming it, every operator producing a tensor name
\* and the Output vertex of it, and every producer and every consumer of one
\* tensor name, each ending at the vertex created for that very record,
\* also when operator names are repeated.
C11_ConnectionsAsDeclared ==
    (Imported /\ before = EmptyGraph) => node_graph.conns = DeclaredConns

\* every vertex holds the coordinate computed for its index in the
\* reversed vertex order
EveryVertexPlaced ==
    \A k \in Vertices : node_graph.nodes[k].pos = Len(node_graph.nodes) - k

\* C12: whenever the visual graph has at least one connection,
\* auto_layout_nodes completes and gives every vertex, a vertex without any
\* connection included, the position computed for its index in the
\* reversed vertex order.
C12_LayoutPlacesEveryVertex ==
    (last_op = "auto_layout" /\ node_graph.conns # {}) => (~raised /\ EveryVertexPlaced)

====
